---------------------------- MODULE Spec2Model ----------------------------
(***************************************************************************)
(* Webhook receiver: HMAC-authenticated, idempotent ingestion of messages  *)
(* keyed by message_id (app/main.py, app/storage.py, app/models.py).       *)
(*                                                                         *)
(* Strings are sequences of character codes.  An optional value is a       *)
(* sequence of length at most one: <<>> is None, <<v>> is the value v.     *)
(***************************************************************************)
EXTENDS Integers, Sequences, FiniteSets, TLC

\* Number of POST /webhook requests of a run; they may all be in flight at once.
NumReq == 3

Requests == 1..NumReq

None == <<>>
Some(v) == <<v>>

-----------------------------------------------------------------------------
(* Character-level helpers *)

\* s with the character at position i replaced by c
SubstAt(s, i, c) == SubSeq(s, 1, i - 1) \o <<c>> \o SubSeq(s, i + 1, Len(s))

RECURSIVE Upper(_)
\* str.upper() on ASCII letters
Upper(s) ==
    IF s = <<>> THEN <<>>
    ELSE <<IF Head(s) >= 97 /\ Head(s) <= 122 THEN Head(s) - 32 ELSE Head(s)>>
         \o Upper(Tail(s))

IsAscii(s) == \A k \in 1..Len(s) : s[k] < 128

\* one lowercase hexadecimal digit, as hexdigest() writes it
HexChar(n) == IF n < 10 THEN 48 + n ELSE 87 + n

-----------------------------------------------------------------------------
(* Signature verification: main.py, verify_hmac_signature *)

\* settings.WEBHOOK_SECRET.encode('utf-8'): a non-empty secret ("s3")
WEBHOOK_SECRET == <<115, 51>>

RECURSIVE Absorb(_)
\* The keyed digest stands for HMAC-SHA256: a deterministic function of the key
\* and of every byte of the message, here a 16-bit digest computed over the
\* two halves of the bytes.
Absorb(bytes) ==
    IF Len(bytes) = 0 THEN 7
    ELSE IF Len(bytes) = 1 THEN bytes[1] + 1
    ELSE LET mid == Len(bytes) \div 2
         IN  (Absorb(SubSeq(bytes, 1, mid)) * 31
              + Absorb(SubSeq(bytes, mid + 1, Len(bytes))) * 17
              + Len(bytes)) % 65521

HmacDigest(key, msg) == Absorb(key \o msg)

\* hmac.new(key, msg, sha256).hexdigest(): lowercase hex of the digest
HexDigest(key, msg) ==
    LET d == HmacDigest(key, msg)
    IN  << HexChar(d \div 4096), HexChar((d \div 256) % 16),
           HexChar((d \div 16) % 16), HexChar(d % 16) >>

\* a comparison that ignores case
CompareDigestNoCase(a, b) ==
    IF ~IsAscii(a) \/ ~IsAscii(b) THEN "type_error"
    ELSE IF Upper(a) = Upper(b) THEN "equal" ELSE "differ"

\* hmac.compare_digest on two str: TypeError when either holds a non-ASCII
\* character, otherwise equality of the whole strings.
CompareDigest(a, b) ==
    IF ~IsAscii(a) \/ ~IsAscii(b) THEN "type_error"
    ELSE IF a = b THEN "equal" ELSE "differ"

\* verify_hmac_signature without the first raise: a missing header falls through
VerifyNoRaise(hdr, raw_body) ==
    IF hdr = None \/ hdr = Some(<<>>) THEN "ok"
    ELSE LET c == CompareDigest(hdr[1], HexDigest(WEBHOOK_SECRET, raw_body))
         IN  IF c = "type_error" THEN "type_error"
             ELSE IF c = "differ" THEN "invalid" ELSE "ok"

\* The outcome of verify_hmac_signature for the X-Signature header (None when
\* absent) and the raw body: "missing" and "invalid" raise HTTPException(401)
\* after counting invalid_signature, "type_error" is compare_digest raising.
verify_hmac_signature(hdr, raw_body) ==
    IF hdr = None \/ hdr = Some(<<>>) THEN "missing"
    ELSE LET c == CompareDigest(hdr[1], HexDigest(WEBHOOK_SECRET, raw_body))
         IN  IF c = "type_error" THEN "type_error"
             ELSE IF c = "differ" THEN "invalid" ELSE "ok"

-----------------------------------------------------------------------------
(* Request body: main.py, receive_webhook(payload: WebhookPayload) *)

\* The JSON member names of the body
K_message_id == <<109, 101, 115, 115, 97, 103, 101, 95, 105, 100>>
K_from == <<102, 114, 111, 109>>
K_to == <<116, 111>>
K_ts == <<116, 115>>
K_text == <<116, 101, 120, 116>>

\* The characters of a string as a JSON string holds them: a newline as \n,
\* a quote and a backslash behind a backslash
RECURSIVE JsonEscape(_)
JsonEscape(str) ==
    IF str = <<>> THEN <<>>
    ELSE LET c == Head(str)
         IN  (IF c = 10 THEN <<92, 110>>
              ELSE IF c = 34 \/ c = 92 THEN <<92, c>>
              ELSE <<c>>) \o JsonEscape(Tail(str))

\* "key":"value" when the member is present, nothing otherwise
JsonMember(name, opt) ==
    IF opt = None THEN None
    ELSE Some(<<34>> \o name \o <<34, 58, 34>> \o JsonEscape(opt[1]) \o <<34>>)

RECURSIVE JsonJoin(_)
JsonJoin(members) ==
    IF members = <<>> THEN <<>>
    ELSE IF Head(members) = None THEN JsonJoin(Tail(members))
    ELSE LET rest == JsonJoin(Tail(members))
         IN  IF rest = <<>> THEN Head(members)[1]
             ELSE Head(members)[1] \o <<44>> \o rest

\* The JSON text of a document: {"message_id":"..","from":"..",...}
JsonDumps(doc) ==
    <<123>> \o JsonJoin(<< JsonMember(K_message_id, doc.message_id),
                           JsonMember(K_from, doc.from),
                           JsonMember(K_to, doc.to),
                           JsonMember(K_ts, doc.ts),
                           JsonMember(K_text, doc.text) >>) \o <<125>>

Doc(id, from, to, ts, text) ==
    [message_id |-> id, from |-> from, to |-> to, ts |-> ts, text |-> text]

\* Field values of the documents sent
IdA == <<97>>
IdB == <<98>>
From1 == <<43, 49, 50>>
From2 == <<43, 49, 51>>
To1 == <<43, 49, 52>>
FromNoPlus == <<49, 50>>
FromNewline == <<43, 49, 50, 10>>
Ts1 == <<49>>
Ts2 == <<50>>
TextHi == <<104, 105>>
TextHj == <<104, 106>>

DocA1 == Doc(Some(IdA), Some(From1), Some(To1), Some(Ts1), Some(TextHi))
\* the same message_id with other field values, among them a sender that
\* ends with a newline
DocA2 == Doc(Some(IdA), Some(FromNewline), Some(To1), Some(Ts2), None)
\* an empty message_id and an empty ts
DocEmptyId == Doc(Some(<<>>), Some(From1), Some(To1), Some(<<>>), None)
DocNoId == Doc(None, Some(From1), Some(To1), Some(Ts1), None)
DocNoTs == Doc(Some(IdB), Some(From1), Some(To1), None, None)
DocBadFrom == Doc(Some(IdB), Some(FromNoPlus), Some(To1), Some(Ts1), None)
\* DocA1 with one byte of the body changed
DocA1m == Doc(Some(IdA), Some(From1), Some(To1), Some(Ts1), Some(TextHj))

Docs == {DocA1, DocA2, DocEmptyId, DocNoId, DocNoTs, DocBadFrom, DocA1m}

\* A body cut short: not a JSON document
Truncated(raw) == SubSeq(raw, 1, Len(raw) - 1)

\* request.json(): the document of a JSON text, None for a JSONDecodeError
JsonLoads(raw) ==
    IF \E d \in Docs : JsonDumps(d) = raw
    THEN Some(CHOOSE d \in Docs : JsonDumps(d) = raw)
    ELSE None

-----------------------------------------------------------------------------
(* Payload validation: models.py, WebhookPayload *)

\* max_length of WebhookPayload.text
MaxTextLen == 4096

\* \d of a str pattern: any Unicode decimal digit (ASCII, and among the others
\* the Arabic-Indic digits)
IsDigit(c) == (c >= 48 /\ c <= 57) \/ (c >= 1632 /\ c <= 1641)

\* \+[1-9]\d{1,14} over the whole of s
E164Whole(s) ==
    /\ Len(s) >= 3
    /\ Len(s) <= 16
    /\ s[1] = 43
    /\ s[2] >= 49
    /\ s[2] <= 57
    /\ \A k \in 3..Len(s) : IsDigit(s[k])

\* E164_PATTERN.match(v): ^ at the start, $ at the end or before a final newline
E164_PATTERN_match(v) ==
    \/ E164Whole(v)
    \/ /\ Len(v) >= 1
       /\ v[Len(v)] = 10
       /\ E164Whole(SubSeq(v, 1, Len(v) - 1))

\* WebhookPayload(**doc): the validated payload, None for a validation error.
\* message_id, from, to and ts are required str; from and to match E.164;
\* text is optional and at most MaxTextLen long.
WebhookPayload(doc) ==
    IF /\ doc.message_id # None
       /\ doc.from # None
       /\ E164_PATTERN_match(doc.from[1])
       /\ doc.to # None
       /\ E164_PATTERN_match(doc.to[1])
       /\ doc.ts # None
       /\ (doc.text = None \/ Len(doc.text[1]) <= MaxTextLen)
    THEN Some([message_id |-> doc.message_id[1], from_msisdn |-> doc.from[1],
               to_msisdn |-> doc.to[1], ts |-> doc.ts[1], text |-> doc.text])
    ELSE None

-----------------------------------------------------------------------------
(* The requests sent: an X-Signature header (None when absent) and a body *)

Sign(raw) == HexDigest(WEBHOOK_SECRET, raw)

\* a hex digit other than c
OtherHex(c) == IF c = 48 THEN 49 ELSE 48

Signed(raw) == [hdr |-> Some(Sign(raw)), body |-> raw]
Sent(hdr, raw) == [hdr |-> hdr, body |-> raw]

Inputs ==
    LET a1 == JsonDumps(DocA1)
        bad == Truncated(a1)
        noid == JsonDumps(DocNoId)
    IN  { Signed(a1), Signed(JsonDumps(DocA2)), Signed(JsonDumps(DocEmptyId)),
          Signed(noid), Signed(JsonDumps(DocNoTs)), Signed(JsonDumps(DocBadFrom)),
          Signed(bad),
          \* no header, an empty header
          Sent(None, bad), Sent(None, noid), Sent(Some(<<>>), a1),
          \* one byte of the signature changed: another hex digit, a
          \* non-ASCII byte, upper case
          Sent(Some(SubstAt(Sign(a1), 1, OtherHex(Sign(a1)[1]))), a1),
          Sent(Some(SubstAt(Sign(a1), 1, 233)), a1),
          Sent(Some(Upper(Sign(a1))), a1),
          \* one byte of the body changed under the signature of the original
          Sent(Some(Sign(a1)), JsonDumps(DocA1m)) }

-----------------------------------------------------------------------------
(* State *)

VARIABLES
    \* the committed rows of the messages table
    store,
    \* per request: where it stands, what it carried, how it was answered
    req,
    \* webhook_requests_total, by result label
    webhook_requests_total,
    \* datetime.now(), as a count of the readings taken
    clock,
    \* AsyncSessionLocal and the database behind it: "none" before init_db,
    \* "up" when the database answers, "down" when it does not
    engine,
    \* the answer to the last GET request, or what the GET request in progress
    \* has read so far
    reply,
    \* http_requests_total, by path and status
    http_requests_total

vars ==
    <<store, req, webhook_requests_total, clock, engine, reply,
      http_requests_total>>

\* A row of the messages table: storage.py, class Message
Message(payload, created_at) ==
    [message_id |-> payload.message_id, from_msisdn |-> payload.from_msisdn,
     to_msisdn |-> payload.to_msisdn, ts |-> payload.ts, text |-> payload.text,
     created_at |-> created_at]

\* The answer to a GET request: what was asked, the status, the content, and
\* when it was computed: the POST requests answered by then, the state of the
\* database
Reply(kind, status, query, data, total, stats, after, db) ==
    [kind |-> kind, status |-> status, query |-> query, data |-> data,
     total |-> total, stats |-> stats, after |-> after, db |-> db]

\* no GET request was answered yet
NoReply == Reply("none", 0, None, <<>>, 0, None, {}, "none")

\* the labels of http_requests_total: the routes and the statuses they answer
HttpLabels ==
    {"/webhook", "/messages", "/stats", "/health/ready", "/health/live"}
        \X {200, 401, 422, 500, 503}

\* Counter('http_requests_total', ..., ['path', 'status']) as declared
HttpCounter == [l \in HttpLabels |-> 0]

IdleRequest ==
    [pc |-> "idle", hdr |-> None, body |-> <<>>, msg |-> None, flushed |-> FALSE,
     session |-> "none", trace |-> <<>>, branch |-> "none", status |-> 0,
     content |-> ""]

Init ==
    /\ store = {}
    /\ req = [r \in Requests |-> IdleRequest]
    /\ webhook_requests_total =
           [created |-> 0, duplicate |-> 0, invalid_signature |-> 0]
    /\ clock = 0
    /\ engine = "up"
    /\ reply = NoReply
    /\ http_requests_total = HttpCounter

Inc(counter, label) == [counter EXCEPT ![label] = @ + 1]

-----------------------------------------------------------------------------
(* Responses *)

\* a creation answered 201
CreatedResponse201 == [status |-> 201, content |-> "{status: created}"]

\* JSONResponse(status_code=200, content={"status": "ok"}) of the created branch
CreatedResponse == [status |-> 200, content |-> "{status: ok}"]

\* a duplicate answered as a conflict
DuplicateResponseConflict == [status |-> 409, content |-> "{status: duplicate}"]

\* JSONResponse(status_code=200, content={"status": "ok"}) of the duplicate branch
DuplicateResponse == [status |-> 200, content |-> "{status: ok}"]

\* HTTPException(401, "invalid signature")
UnauthorizedResponse == [status |-> 401, content |-> "{detail: invalid signature}"]

\* RequestValidationError, answered 422 by the framework
ValidationResponse == [status |-> 422, content |-> "{detail: validation error}"]

\* an exception that leaves the application, answered 500
ServerErrorResponse == [status |-> 500, content |-> "Internal Server Error"]

\* an answer that leaves the session as it was
AnswerKeepingSession(rq, resp, branch, session, stages) ==
    [rq EXCEPT !.pc = "done", !.status = resp.status, !.content = resp.content,
               !.branch = branch, !.trace = @ \o stages]

Answer(rq, resp, branch, session, stages) ==
    [rq EXCEPT !.pc = "done", !.status = resp.status, !.content = resp.content,
               !.branch = branch, !.session = session,
               !.trace = @ \o stages]

-----------------------------------------------------------------------------
(* POST /webhook up to the handler body: main.py, receive_webhook's parameters *)

\* What the route computes from a request: the decoded body, the outcome of
\* the signature check, the validated payload
Decoded ==
    [inp \in Inputs |->
        LET json == JsonLoads(inp.body)
        IN  [json |-> json,
             sig |-> verify_hmac_signature(inp.hdr, inp.body),
             valid |-> IF json = None THEN None ELSE WebhookPayload(json[1])]]

\* The route reads and decodes the JSON body first, then resolves the
\* dependencies in the order declared (get_db, verify_hmac_signature), then
\* validates the body against WebhookPayload, and only then calls the handler,
\* which builds the Message (created_at = now) and adds it to the session.
Receive(r) ==
    /\ req[r].pc = "idle"
    /\ \A q \in Requests : q < r => req[q].pc # "idle"
    /\ \E inp \in Inputs :
         LET got == [req[r] EXCEPT !.hdr = inp.hdr, !.body = inp.body]
             json == Decoded[inp].json
             sig == Decoded[inp].sig
             valid == Decoded[inp].valid
         IN  IF json = None
             THEN /\ req' = [req EXCEPT ![r] =
                        Answer(got, ValidationResponse, "json_invalid", "none",
                               <<"json_error">>)]
                  /\ UNCHANGED <<webhook_requests_total, clock>>
             ELSE IF sig \in {"missing", "invalid"}
             THEN /\ req' = [req EXCEPT ![r] =
                        Answer(got, UnauthorizedResponse, "invalid_signature", "closed",
                               <<"json", "get_db", "verify_401", "rollback", "close">>)]
                  /\ webhook_requests_total' =
                        Inc(webhook_requests_total, "invalid_signature")
                  /\ UNCHANGED clock
             ELSE IF sig = "type_error"
             THEN /\ req' = [req EXCEPT ![r] =
                        Answer(got, ServerErrorResponse, "type_error", "closed",
                               <<"json", "get_db", "verify_raise", "rollback", "close">>)]
                  /\ UNCHANGED <<webhook_requests_total, clock>>
             ELSE IF valid = None
             THEN /\ req' = [req EXCEPT ![r] =
                        Answer(got, ValidationResponse, "validation_error", "closed",
                               <<"json", "get_db", "verify_ok", "validate_error",
                                 "close">>)]
                  /\ UNCHANGED <<webhook_requests_total, clock>>
             ELSE /\ req' = [req EXCEPT ![r] =
                        [got EXCEPT !.pc = "flush", !.session = "open",
                                   !.msg = Some(Message(valid[1], clock)),
                                   !.trace = <<"json", "get_db", "verify_ok",
                                               "validate_ok", "add">>]]
                  /\ clock' = clock + 1
                  /\ UNCHANGED webhook_requests_total
    /\ UNCHANGED store

-----------------------------------------------------------------------------
(* The messages table: storage.py, Message.message_id primary_key=True *)

\* an insert that checks no key
PrimaryKeyUnchecked(table, row) == FALSE

\* Whether inserting row violates the primary key of the table
PrimaryKeyViolation(table, row) ==
    \E x \in table : x.message_id = row.message_id

\* a store whose inserts never wait for one another
InsertNeverWaits(r) == FALSE

\* Another transaction holds an uncommitted insert of the same key: the insert
\* waits until that transaction ends
InsertWaits(r) ==
    \E q \in Requests \ {r} :
        /\ req[q].flushed
        /\ req[q].msg[1].message_id = req[r].msg[1].message_id

-----------------------------------------------------------------------------
(* The handler body: main.py, receive_webhook; storage.py, save_message *)

\* the duplicate written over the stored row
AfterMerge(table, row) ==
    {x \in table : x.message_id # row.message_id} \cup {row}

\* a rollback that takes the stored row of the same key with it
AfterRollbackDropping(table, row) ==
    {x \in table : x.message_id # row.message_id}

\* The table after await db.rollback() of a transaction whose insert failed
AfterRollback(table, row) == table

\* await db.flush() in save_message: the INSERT.  When it passes, the handler
\* goes on to the commit.  IntegrityError enters the duplicate branch: roll
\* back, count 'duplicate', answer 200; get_db then commits the (empty)
\* transaction and closes the session.
Flush(r) ==
    /\ req[r].pc = "flush"
    /\ ~InsertWaits(r)
    /\ IF PrimaryKeyViolation(store, req[r].msg[1])
       THEN /\ store' = AfterRollback(store, req[r].msg[1])
            /\ webhook_requests_total' = Inc(webhook_requests_total, "duplicate")
            /\ req' = [req EXCEPT ![r] =
                   Answer(req[r], DuplicateResponse, "duplicate", "closed",
                          <<"flush_IntegrityError", "rollback", "count_duplicate",
                            "exit_commit", "close">>)]
       ELSE /\ req' = [req EXCEPT ![r].pc = "commit", ![r].flushed = TRUE,
                                  ![r].trace = @ \o <<"flush">>]
            /\ UNCHANGED <<store, webhook_requests_total>>
    /\ UNCHANGED clock

\* await db.flush() raising anything else (the store unreachable, locked, ...):
\* except Exception rolls back, logs and re-raises; get_db rolls back again and
\* closes; the request is answered 500
FlushFail(r) ==
    /\ req[r].pc = "flush"
    /\ req' = [req EXCEPT ![r] =
           Answer(req[r], ServerErrorResponse, "error", "closed",
                  <<"flush_error", "rollback", "raise", "exit_rollback", "close">>)]
    /\ UNCHANGED <<store, webhook_requests_total, clock>>

\* await db.commit(): the inserted row becomes a committed row
Commit(r) ==
    /\ req[r].pc = "commit"
    /\ store' = store \cup {req[r].msg[1]}
    /\ req' = [req EXCEPT ![r].pc = "created", ![r].flushed = FALSE,
                          ![r].branch = "created",
                          ![r].trace = @ \o <<"commit">>]
    /\ UNCHANGED <<webhook_requests_total, clock>>

\* a commit that raises after the row was written
CommitFailAfterWrite(r) ==
    /\ req[r].pc = "commit"
    /\ store' = store \cup {req[r].msg[1]}
    /\ req' = [req EXCEPT ![r].pc = "err_rollback", ![r].branch = "error",
                          ![r].trace = @ \o <<"commit_error">>]
    /\ UNCHANGED <<webhook_requests_total, clock>>

\* await db.commit() raising: nothing is committed, the insert is still pending
CommitFail(r) ==
    /\ req[r].pc = "commit"
    /\ req' = [req EXCEPT ![r].pc = "err_rollback", ![r].branch = "error",
                          ![r].trace = @ \o <<"commit_error">>]
    /\ UNCHANGED <<store, webhook_requests_total, clock>>

\* After the commit: count 'created', answer 200; get_db then commits the
\* (empty) transaction and closes the session.
Created(r) ==
    /\ req[r].pc = "created"
    /\ webhook_requests_total' = Inc(webhook_requests_total, "created")
    /\ req' = [req EXCEPT ![r] =
           Answer(req[r], CreatedResponse, "created", "closed",
                  <<"count_created", "exit_commit", "close">>)]
    /\ UNCHANGED <<store, clock>>

\* except Exception after a failed commit: await db.rollback() discards the
\* pending insert; log, re-raise; get_db rolls back again and closes; 500
Error(r) ==
    /\ req[r].pc = "err_rollback"
    /\ req' = [req EXCEPT ![r] =
           Answer([req[r] EXCEPT !.flushed = FALSE], ServerErrorResponse, "error",
                  "closed", <<"rollback", "raise", "exit_rollback", "close">>)]
    /\ UNCHANGED <<store, webhook_requests_total, clock>>

Next ==
    \E r \in Requests :
        \/ Receive(r) /\ UNCHANGED <<engine, reply, http_requests_total>>
        \/ Flush(r) /\ UNCHANGED <<engine, reply, http_requests_total>>
        \/ FlushFail(r) /\ UNCHANGED <<engine, reply, http_requests_total>>
        \/ Commit(r) /\ UNCHANGED <<engine, reply, http_requests_total>>
        \/ CommitFail(r) /\ UNCHANGED <<engine, reply, http_requests_total>>
        \/ Created(r) /\ UNCHANGED <<engine, reply, http_requests_total>>
        \/ Error(r) /\ UNCHANGED <<engine, reply, http_requests_total>>

Spec == Init /\ [][Next]_vars

\* Requests one at a time: a request is sent when every earlier one is answered
ReceiveSeq(r) ==
    /\ \A q \in Requests : req[q].pc \in {"idle", "done"}
    /\ Receive(r)

NextSeq ==
    \E r \in Requests :
        \/ ReceiveSeq(r) /\ UNCHANGED <<engine, reply, http_requests_total>>
        \/ Flush(r) /\ UNCHANGED <<engine, reply, http_requests_total>>
        \/ FlushFail(r) /\ UNCHANGED <<engine, reply, http_requests_total>>
        \/ Commit(r) /\ UNCHANGED <<engine, reply, http_requests_total>>
        \/ CommitFail(r) /\ UNCHANGED <<engine, reply, http_requests_total>>
        \/ Created(r) /\ UNCHANGED <<engine, reply, http_requests_total>>
        \/ Error(r) /\ UNCHANGED <<engine, reply, http_requests_total>>

SpecSeq == Init /\ [][NextSeq]_vars

-----------------------------------------------------------------------------
(* POST /webhook cancelled: CancelledError raised at one of the handler's awaits *)

\* CancelledError is not an Exception: the except clauses of receive_webhook
\* and of get_db are passed over, and get_db's finally closes the session,
\* which discards what the session has pending.  No response is produced and
\* no counter is incremented.
Cancelled(rq, stages) ==
    [rq EXCEPT !.pc = "done", !.branch = "cancelled", !.flushed = FALSE,
               !.session = "closed", !.trace = @ \o stages]

\* Cancelled while await db.flush() is pending, the INSERT performed or not,
\* or while the rollback after a failed commit is pending: nothing of the
\* request is committed
CancelBeforeCommit(r) ==
    /\ req[r].pc \in {"flush", "commit", "err_rollback"}
    /\ req' = [req EXCEPT ![r] =
           Cancelled(req[r], <<"cancel_before_commit", "close">>)]
    /\ UNCHANGED <<store, webhook_requests_total, clock>>

\* Cancelled while await db.commit() is pending: the COMMIT was handed to the
\* database before the handler suspended, and the database performs it
CancelDuringCommit(r) ==
    /\ req[r].pc = "commit"
    /\ store' = store \cup {req[r].msg[1]}
    /\ req' = [req EXCEPT ![r] =
           Cancelled(req[r], <<"cancel_at_commit", "commit", "close">>)]
    /\ UNCHANGED <<webhook_requests_total, clock>>

\* Cancelled when the commit has completed and the handler has not resumed:
\* the row is committed, 'created' is not counted
CancelAfterCommit(r) ==
    /\ req[r].pc = "created"
    /\ req' = [req EXCEPT ![r] =
           Cancelled(req[r], <<"cancel_after_commit", "close">>)]
    /\ UNCHANGED <<store, webhook_requests_total, clock>>

NextCancel ==
    \/ Next
    \/ \E r \in Requests :
          \/ CancelBeforeCommit(r) /\ UNCHANGED <<engine, reply, http_requests_total>>
          \/ CancelDuringCommit(r) /\ UNCHANGED <<engine, reply, http_requests_total>>
          \/ CancelAfterCommit(r) /\ UNCHANGED <<engine, reply, http_requests_total>>

SpecCancel == Init /\ [][NextCancel]_vars

-----------------------------------------------------------------------------
(* Query parameters and SQL expressions of the read endpoints *)

Min(a, b) == IF a <= b THEN a ELSE b

\* the value of a hex digit, -1 for another character
HexVal(c) ==
    IF c >= 48 /\ c <= 57 THEN c - 48
    ELSE IF c >= 97 /\ c <= 102 THEN c - 87
    ELSE IF c >= 65 /\ c <= 70 THEN c - 55
    ELSE -1

\* The value of a query parameter as the framework hands it to the handler:
\* '+' stands for a space, %XX for the byte XX
RECURSIVE UrlDecode(_)
UrlDecode(raw) ==
    IF raw = <<>> THEN <<>>
    ELSE IF raw[1] = 43 THEN <<32>> \o UrlDecode(Tail(raw))
    ELSE IF /\ raw[1] = 37
            /\ Len(raw) >= 3
            /\ HexVal(raw[2]) >= 0
            /\ HexVal(raw[3]) >= 0
         THEN <<16 * HexVal(raw[2]) + HexVal(raw[3])>>
                  \o UrlDecode(SubSeq(raw, 4, Len(raw)))
    ELSE <<raw[1]>> \o UrlDecode(Tail(raw))

\* Optional[str] = Query(default=None): None when the parameter is absent
QueryParam(opt) == IF opt = None THEN None ELSE Some(UrlDecode(opt[1]))

\* a < b as the database compares two strings
RECURSIVE StrLess(_, _)
StrLess(a, b) ==
    IF b = <<>> THEN FALSE
    ELSE IF a = <<>> THEN TRUE
    ELSE IF a[1] # b[1] THEN a[1] < b[1]
    ELSE StrLess(Tail(a), Tail(b))

StrLeq(a, b) == a = b \/ StrLess(a, b)

\* rows ordered by message_id alone
RowBeforeById(x, y) == StrLess(x.message_id, y.message_id)

\* order_by(Message.ts.asc(), Message.message_id.asc())
RowBefore(x, y) ==
    \/ StrLess(x.ts, y.ts)
    \/ x.ts = y.ts /\ StrLess(x.message_id, y.message_id)

RECURSIVE OrderBy(_)
OrderBy(rows) ==
    IF rows = {} THEN <<>>
    ELSE LET first == CHOOSE x \in rows : \A y \in rows \ {x} : RowBefore(x, y)
         IN  <<first>> \o OrderBy(rows \ {first})

\* lower(): the ASCII letters in lower case
Lower(str) ==
    [k \in 1..Len(str) |-> IF str[k] >= 65 /\ str[k] <= 90 THEN str[k] + 32 ELSE str[k]]

\* str LIKE pat: % stands for any run of characters, _ for any one character
RECURSIVE Like(_, _)
Like(pat, str) ==
    IF pat = <<>> THEN str = <<>>
    ELSE IF pat[1] = 37
         THEN Like(Tail(pat), str) \/ (str # <<>> /\ Like(pat, Tail(str)))
    ELSE IF pat[1] = 95 THEN str # <<>> /\ Like(Tail(pat), Tail(str))
    ELSE str # <<>> /\ str[1] = pat[1] /\ Like(Tail(pat), Tail(str))

\* Message.text.ilike(pat): lower(text) LIKE lower(pat), never true of NULL
ILike(text, pat) == text # None /\ Like(Lower(pat), Lower(text[1]))

\* query.limit(limit).offset(offset)
Page(rows, limit, offset) ==
    IF offset >= Len(rows) THEN <<>>
    ELSE SubSeq(rows, offset + 1, Min(offset + limit, Len(rows)))

-----------------------------------------------------------------------------
(* GET /messages: main.py, get_messages *)

\* limit: int = Query(default=50, ge=1, le=100)
DefaultLimit == 50
MinLimit == 1
MaxLimit == 100

\* the filters of get_messages, each applied when its parameter is truthy
Where(rows, from_msisdn, since, q) ==
    {x \in rows :
        /\ (from_msisdn # None /\ from_msisdn[1] # <<>>) =>
               x.from_msisdn = from_msisdn[1]
        /\ (since # None /\ since[1] # <<>>) => StrLeq(since[1], x.ts)
        /\ (q # None /\ q[1] # <<>>) => ILike(x.text, <<37>> \o q[1] \o <<37>>)}

\* a total that counts the rows of the page
get_messages_counting_page(rows, qy) ==
    LET matched == Where(rows, QueryParam(qy.from), QueryParam(qy.since),
                         QueryParam(qy.q))
        data == Page(OrderBy(matched), qy.limit, qy.offset)
    IN  [data |-> data, total |-> Len(data)]

\* The body of get_messages: the count of the filtered rows, and the page of
\* the filtered rows in order
get_messages(rows, qy) ==
    LET matched == Where(rows, QueryParam(qy.from), QueryParam(qy.since),
                         QueryParam(qy.q))
    IN  [data |-> Page(OrderBy(matched), qy.limit, qy.offset),
         total |-> Cardinality(matched)]

\* the POST requests answered so far
Answered == {r \in Requests : req[r].pc = "done"}

\* GET /messages with the query string qy (the parameters as written in the
\* URL). get_db raises before init_db; limit and offset are validated; a
\* database that does not answer makes db.execute raise
GetMessages(qy) ==
    /\ reply' =
          IF engine = "none"
          THEN Reply("messages", 500, None, <<>>, 0, None, Answered, engine)
          ELSE IF qy.limit < MinLimit \/ qy.limit > MaxLimit \/ qy.offset < 0
          THEN Reply("messages", 422, None, <<>>, 0, None, Answered, engine)
          ELSE IF engine = "down"
          THEN Reply("messages", 500, None, <<>>, 0, None, Answered, engine)
          ELSE LET got == get_messages(store, qy)
               IN  Reply("messages", 200, Some(qy), got.data, got.total, None,
                         Answered, engine)
    /\ UNCHANGED <<store, req, webhook_requests_total, clock, engine,
                   http_requests_total>>

-----------------------------------------------------------------------------
(* GET /stats: main.py, get_stats *)

\* .limit(10) of messages_per_sender
TopSenders == 10

Senders(rows) == {x.from_msisdn : x \in rows}
CountOf(rows, sender) == Cardinality({x \in rows : x.from_msisdn = sender})

\* group_by(from_msisdn).order_by(count.desc()).limit(10): every list the
\* statement allows, the order among equal counts being left to the database
TopLists(rows) ==
    LET n == Min(Cardinality(Senders(rows)), TopSenders)
    IN  {f \in [1..n -> Senders(rows)] :
            /\ \A i, j \in 1..n :
                  i < j => /\ f[i] # f[j]
                           /\ CountOf(rows, f[i]) >= CountOf(rows, f[j])
            /\ \A sender \in Senders(rows) \ {f[i] : i \in 1..n} :
                  \A i \in 1..n : CountOf(rows, sender) <= CountOf(rows, f[i])}

\* select(Message.ts).order_by(Message.ts.asc()).limit(1), None of no row
FirstTs(rows) ==
    IF rows = {} THEN None
    ELSE Some(CHOOSE t \in {x.ts : x \in rows} :
                  \A x \in rows : StrLeq(t, x.ts))

\* select(Message.ts).order_by(Message.ts.desc()).limit(1), None of no row
LastTs(rows) ==
    IF rows = {} THEN None
    ELSE Some(CHOOSE t \in {x.ts : x \in rows} :
                  \A x \in rows : StrLeq(x.ts, t))

\* statistics that count the senders' rows
get_stats_counting_rows(rows, top) ==
    [total_messages |-> Cardinality(rows),
     senders_count |-> Cardinality(rows),
     messages_per_sender |->
         [i \in DOMAIN top |->
             [from_msisdn |-> top[i], count |-> CountOf(rows, top[i])]],
     first_message_ts |-> FirstTs(rows),
     last_message_ts |-> LastTs(rows)]

\* The body of get_stats, top being the list the database returned
get_stats(rows, top) ==
    [total_messages |-> Cardinality(rows),
     senders_count |-> Cardinality(Senders(rows)),
     messages_per_sender |->
         [i \in DOMAIN top |->
             [from_msisdn |-> top[i], count |-> CountOf(rows, top[i])]],
     first_message_ts |-> FirstTs(rows),
     last_message_ts |-> LastTs(rows)]

GetStats ==
    /\ \E top \in TopLists(store) :
          reply' =
              IF engine = "up"
              THEN Reply("stats", 200, None, <<>>, 0, Some(get_stats(store, top)),
                         Answered, engine)
              ELSE Reply("stats", 500, None, <<>>, 0, None, Answered, engine)
    /\ UNCHANGED <<store, req, webhook_requests_total, clock, engine,
                   http_requests_total>>

-----------------------------------------------------------------------------
(* Health probes: main.py, liveness_check, readiness_check *)

\* readiness_check: get_db raises RuntimeError before init_db (500); select(1)
\* raising is turned into HTTPException(503)
ReadyStatus(state) ==
    IF state = "none" THEN 500 ELSE IF state = "down" THEN 503 ELSE 200

readiness_check ==
    /\ reply' = Reply("ready", ReadyStatus(engine), None, <<>>, 0, None, Answered, engine)
    /\ UNCHANGED <<store, req, webhook_requests_total, clock, engine,
                   http_requests_total>>

liveness_check ==
    /\ reply' = Reply("live", 200, None, <<>>, 0, None, Answered, engine)
    /\ UNCHANGED <<store, req, webhook_requests_total, clock, engine,
                   http_requests_total>>

\* lifespan startup: init_db creates the engine, the session factory and the
\* tables; the rows of an existing database stay
init_db ==
    /\ engine = "none"
    /\ engine' = "up"
    /\ UNCHANGED <<store, req, webhook_requests_total, clock, reply,
                   http_requests_total>>

\* the database stops answering, answers again
Disconnect ==
    /\ engine = "up"
    /\ engine' = "down"
    /\ UNCHANGED <<store, req, webhook_requests_total, clock, reply,
                   http_requests_total>>

Reconnect ==
    /\ engine = "down"
    /\ engine' = "up"
    /\ UNCHANGED <<store, req, webhook_requests_total, clock, reply,
                   http_requests_total>>

-----------------------------------------------------------------------------
(* The read endpoints over a database that holds rows already *)

\* the most rows of the database
MaxRows == 3

RowId(i) == <<96 + i>>
TextUnder == <<72, 95>>

\* ts, sender and text of the rows
RowKinds ==
    { [ts |-> Ts1, from |-> From1, text |-> Some(TextHi)],
      [ts |-> Ts2, from |-> From1, text |-> Some(TextUnder)],
      [ts |-> Ts1, from |-> From2, text |-> None],
      [ts |-> Ts2, from |-> From2, text |-> Some(TextHi)] }

RowOf(i, kind) ==
    Message([message_id |-> RowId(i), from_msisdn |-> kind.from,
             to_msisdn |-> To1, ts |-> kind.ts, text |-> kind.text], i)

\* every set of at most MaxRows rows with distinct message_id
Stores ==
    { {RowOf(i, f[i]) : i \in {j \in 1..MaxRows : f[j] # None}} :
        f \in [1..MaxRows -> RowKinds \cup {None}] }

Query(limit, offset, from, since, q) ==
    [limit |-> limit, offset |-> offset, from |-> from, since |-> since, q |-> q]

\* from=%2B12, from=+12 as written in a URL
FromEncoded == <<37, 50, 66, 49, 50>>
FromLiteral == From1

\* pages of every size and offset, over all rows and over one sender's
PageQueries ==
    { Query(limit, offset, from, None, None) :
        limit \in {1, 2}, offset \in 0..(MaxRows + 1),
        from \in {None, Some(FromEncoded)} }

\* the filters alone and together: q = h, q = % (written %25), q = _
FilterQueries ==
    { Query(DefaultLimit, 0, from, since, q) :
        from \in {None, Some(<<>>), Some(FromEncoded), Some(FromLiteral)},
        since \in {None, Some(Ts2)},
        q \in {None, Some(<<104>>), Some(<<37, 50, 53>>), Some(<<95>>)} }

Queries == PageQueries \cup FilterQueries \cup {Query(0, 0, None, None, None)}

InitRead ==
    /\ store \in Stores
    /\ req = [r \in Requests |-> IdleRequest]
    /\ webhook_requests_total =
           [created |-> 0, duplicate |-> 0, invalid_signature |-> 0]
    /\ clock = 0
    /\ engine = "none"
    /\ reply = NoReply
    /\ http_requests_total = HttpCounter

NextMessages ==
    \/ init_db
    \/ Disconnect
    \/ Reconnect
    \/ \E qy \in Queries : GetMessages(qy)

SpecMessages == InitRead /\ [][NextMessages]_vars

NextStats ==
    \/ init_db
    \/ Disconnect
    \/ Reconnect
    \/ GetStats
    \/ readiness_check
    \/ liveness_check

SpecStats == InitRead /\ [][NextStats]_vars

-----------------------------------------------------------------------------
(* POST /webhook requests one at a time, and GET /messages between them *)

\* GET /messages?from=... with the sender written as it is, and encoded
FromQueries ==
    { Query(DefaultLimit, 0, Some(from), None, None) :
        from \in {FromLiteral, FromEncoded} }

NextPostGet ==
    \/ NextSeq
    \/ \E qy \in FromQueries :
          /\ \A r \in Requests : req[r].pc \in {"idle", "done"}
          /\ GetMessages(qy)

SpecPostGet == Init /\ [][NextPostGet]_vars

-----------------------------------------------------------------------------
(* The read endpoints statement by statement, POST /webhook requests between *)

\* a GET request has executed some of its statements and not yet answered
Reading == reply.kind \in {"messages_counted", "stats_reading"}

\* get_messages up to 'total = total_result.scalar() or 0': the count query
\* reads the rows committed when it runs
CountMessages(qy) ==
    /\ ~Reading
    /\ engine = "up"
    /\ qy.limit >= MinLimit /\ qy.limit <= MaxLimit /\ qy.offset >= 0
    /\ reply' = Reply("messages_counted", 0, Some(qy), <<>>,
                      get_messages(store, qy).total, None, Answered, engine)
    /\ UNCHANGED <<store, req, webhook_requests_total, clock, engine,
                   http_requests_total>>

\* get_messages from 'result = await db.execute(query)' to the return: the
\* page query reads the rows committed when it runs, total is the one counted
PageMessages ==
    /\ reply.kind = "messages_counted"
    /\ engine = "up"
    /\ reply' = Reply("messages", 200, reply.query,
                      get_messages(store, reply.query[1]).data, reply.total,
                      None, Answered, engine)
    /\ UNCHANGED <<store, req, webhook_requests_total, clock, engine,
                   http_requests_total>>

\* the five statements of get_stats, in the order they are executed
StatsFields ==
    <<"total_messages", "senders_count", "messages_per_sender",
      "first_message_ts", "last_message_ts">>

\* The next statement of get_stats: it reads the rows committed when it runs;
\* after the fifth the response is built from the five values read
ReadStats ==
    /\ reply.kind # "messages_counted"
    /\ engine = "up"
    /\ \E top \in TopLists(store) :
          LET now == get_stats(store, top)
              seen == IF reply.kind = "stats_reading" THEN reply.data ELSE <<>>
              got == Append(seen, now[StatsFields[Len(seen) + 1]])
          IN  reply' =
                 IF Len(got) < Len(StatsFields)
                 THEN Reply("stats_reading", 0, None, got, 0, None, Answered,
                            engine)
                 ELSE Reply("stats", 200, None, <<>>, 0,
                            Some([total_messages |-> got[1],
                                  senders_count |-> got[2],
                                  messages_per_sender |-> got[3],
                                  first_message_ts |-> got[4],
                                  last_message_ts |-> got[5]]),
                            Answered, engine)
    /\ UNCHANGED <<store, req, webhook_requests_total, clock, engine,
                   http_requests_total>>

\* GET /messages with limit 1 and 2, offset 0 and 1, no filter
PlainQueries ==
    { Query(limit, offset, None, None, None) : limit \in {1, 2}, offset \in {0, 1} }

NextReadWrite ==
    \/ NextSeq
    \/ \E qy \in PlainQueries : CountMessages(qy)
    \/ PageMessages
    \/ ReadStats

SpecReadWrite == Init /\ [][NextReadWrite]_vars

-----------------------------------------------------------------------------
(* Vocabulary of the properties *)

Arrived(q) == req[q].pc # "idle"
Done(q) == req[q].pc = "done"
InTrace(q, stage) == \E k \in 1..Len(req[q].trace) : req[q].trace[k] = stage
\* stage a occurs in the trace of q, and before stage b
Precedes(q, a, b) ==
    \E j \in 1..Len(req[q].trace) :
        /\ req[q].trace[j] = b
        /\ \E i \in 1..(j - 1) : req[q].trace[i] = a
\* the request went through a storage failure
Faulted(q) == InTrace(q, "flush_error") \/ InTrace(q, "commit_error")
\* the request reached the handler: it was validly signed and valid
Handled(q) == req[q].msg # None
MsgId(q) == req[q].msg[1].message_id
SameId(q) == {p \in Requests : Handled(p) /\ MsgId(p) = MsgId(q)}
TheInput(q) == [hdr |-> req[q].hdr, body |-> req[q].body]
\* the hex digest of each body sent, under the secret
ExpectedSignature == [inp \in Inputs |-> HexDigest(WEBHOOK_SECRET, inp.body)]
\* the requests sent whose header is the hex digest of the body
ValidlySigned == {inp \in Inputs : inp.hdr = Some(ExpectedSignature[inp])}
\* the header is the hex digest of the body under the secret
SigValid(q) == Arrived(q) /\ TheInput(q) \in ValidlySigned
InsertAttempted(q) ==
    InTrace(q, "flush") \/ InTrace(q, "flush_IntegrityError")
        \/ InTrace(q, "flush_error")
\* s and t have the same length and differ in exactly one position
OneByteApart(s, t) ==
    /\ Len(s) = Len(t)
    /\ Cardinality({k \in 1..Len(s) : s[k] # t[k]}) = 1
TheDoc(q) == Decoded[TheInput(q)].json
\* the requests sent whose header is one byte away from the digest of the body
HeaderOneByteOff ==
    {inp \in Inputs :
        inp.hdr # None /\ OneByteApart(inp.hdr[1], ExpectedSignature[inp])}
\* the requests sent whose header is the digest of a body one byte away
BodyOneByteOff ==
    {inp \in Inputs :
        \E d \in Docs :
            /\ OneByteApart(JsonDumps(d), inp.body)
            /\ inp.hdr = Some(HexDigest(WEBHOOK_SECRET, JsonDumps(d)))}

-----------------------------------------------------------------------------
(* C1 *)

\* C1: among the requests that carry one message_id and reach the handler, in
\* any interleaving of their insert, commit and rollback steps, at most one
\* takes the created branch; and every one of them that is answered without a
\* storage failure is answered 200 from the created or the duplicate branch,
\* with exactly one of the requests of that message_id in the created branch.
C1_OneCreatedRestDuplicate ==
    \A q \in Requests :
        Handled(q) =>
            /\ Cardinality({p \in SameId(q) : req[p].branch = "created"}) <= 1
            /\ (Done(q) /\ ~Faulted(q)) =>
                  /\ req[q].status = 200
                  /\ req[q].branch \in {"created", "duplicate"}
                  /\ Cardinality({p \in SameId(q) : req[p].branch = "created"}) = 1

\* Three requests of one message_id in flight together: one is in the created
\* branch and not yet answered, the two others were answered as duplicates.
C1_Witness ==
    \E p \in Requests :
        /\ req[p].pc = "created"
        /\ Cardinality({q \in SameId(p) \ {p} :
               Done(q) /\ req[q].branch = "duplicate" /\ req[q].status = 200}) >= 2

-----------------------------------------------------------------------------
(* C2 *)

\* the submissions identical to q
Identical(q) ==
    {p \in Requests : Arrived(p) /\ req[p].hdr = req[q].hdr /\ req[p].body = req[q].body}
First(S) == CHOOSE p \in S : \A o \in S : p <= o

\* C2: when one valid, validly signed payload is submitted N times one after
\* the other (no other payload uses its message_id, no storage failure), the
\* first submission is created, the N-1 others are duplicates, all are
\* answered 200 and the store holds exactly one row of that message_id, the
\* one the first submission wrote; and an IntegrityError on the insert always
\* ends in the duplicate branch with 200.
C2_Idempotent ==
    /\ \A q \in Requests :
          ( /\ Handled(q)
            /\ SameId(q) = Identical(q)
            /\ \A p \in Identical(q) : Done(p) /\ ~Faulted(p) ) =>
               /\ req[First(Identical(q))].branch = "created"
               /\ \A p \in Identical(q) \ {First(Identical(q))} :
                      req[p].branch = "duplicate"
               /\ \A p \in Identical(q) : req[p].status = 200
               /\ {x \in store : x.message_id = MsgId(q)}
                      = {req[First(Identical(q))].msg[1]}
    /\ \A q \in Requests :
          InTrace(q, "flush_IntegrityError") =>
              req[q].branch = "duplicate" /\ req[q].status = 200

\* The same payload submitted three times in sequence, all answered
C2_Witness ==
    /\ \A q \in Requests : Done(q) /\ Handled(q) /\ ~Faulted(q)
    /\ Cardinality(Requests) >= 3
    /\ \A q \in Requests : Identical(q) = Requests
    /\ req[1].branch = "created"
    /\ \A q \in Requests \ {1} : req[q].branch = "duplicate"

-----------------------------------------------------------------------------
(* C3 *)

\* C3: the committed rows never hold two rows of one message_id
C3_UniqueMessageId ==
    \A x, y \in store : x.message_id = y.message_id => x = y

\* Two requests of one message_id and different field values have both been
\* answered, one created and one duplicate, and the store holds the one row
C3_Witness ==
    \E p, q \in Requests :
        /\ Done(p) /\ req[p].branch = "created"
        /\ Done(q) /\ req[q].branch = "duplicate"
        /\ MsgId(p) = MsgId(q)
        /\ req[p].msg[1] # req[q].msg[1]
        /\ Cardinality(store) = 1

-----------------------------------------------------------------------------
(* C4 *)

\* C4: a committed row stays in the store, with every field as first written,
\* whatever step follows
C4_RowsImmutable == [][\A x \in store : x \in store']_vars

\* A row is committed; a later request of the same message_id with other
\* field values was answered as a duplicate, another request was refused, and
\* the row is the one first written
C4_Witness ==
    \E p, q, o \in Requests :
        /\ Done(p) /\ req[p].branch = "created"
        /\ Done(q) /\ req[q].branch = "duplicate"
        /\ MsgId(p) = MsgId(q)
        /\ req[q].msg[1].from_msisdn # req[p].msg[1].from_msisdn
        /\ Done(o) /\ req[o].status \in {401, 422, 500}
        /\ store = {req[p].msg[1]}

-----------------------------------------------------------------------------
(* C5 *)

\* C5: every request that reached the handler and met no storage failure is
\* answered 200 with the body {"status": "ok"}, so any two of them are
\* answered alike, whether the message_id was already stored or not
C5_SameResponse ==
    \A p, q \in Requests :
        ( /\ Handled(p) /\ Done(p) /\ ~Faulted(p)
          /\ Handled(q) /\ Done(q) /\ ~Faulted(q) ) =>
            /\ req[p].status = 200
            /\ req[p].content = "{status: ok}"
            /\ req[p].status = req[q].status
            /\ req[p].content = req[q].content

\* The same request answered once when its message_id was new and once when
\* it was stored
C5_Witness ==
    \E p, q \in Requests :
        /\ Done(p) /\ req[p].branch = "created"
        /\ Done(q) /\ req[q].branch = "duplicate"
        /\ req[p].body = req[q].body
        /\ req[p].hdr = req[q].hdr

-----------------------------------------------------------------------------
(* C6 *)

\* C6: the signature check accepts exactly when the X-Signature header equals
\* the lowercase hex digest of the raw body under the secret: for every
\* request sent, and for every request whose check ran; a header one byte
\* away from the digest, and a body one byte away from the signed one, are
\* not accepted.
C6_AcceptIffDigest ==
    /\ \A inp \in Inputs :
          (Decoded[inp].sig = "ok") <=> (inp.hdr = Some(ExpectedSignature[inp]))
    /\ \A q \in Requests :
          InTrace(q, "get_db") =>
              /\ InTrace(q, "verify_ok") <=> SigValid(q)
              /\ TheInput(q) \in HeaderOneByteOff => ~InTrace(q, "verify_ok")
              /\ TheInput(q) \in BodyOneByteOff => ~InTrace(q, "verify_ok")

\* One request was accepted with the digest of its body, one was refused for
\* a header one byte away from the digest, one for a body one byte away from
\* the body that was signed
C6_Witness ==
    \E p, q, o \in Requests :
        /\ InTrace(p, "verify_ok") /\ SigValid(p)
        /\ Arrived(q) /\ TheInput(q) \in HeaderOneByteOff
        /\ req[q].status = 401
        /\ Arrived(o) /\ TheInput(o) \in BodyOneByteOff
        /\ req[o].hdr = req[p].hdr
        /\ req[o].status = 401

-----------------------------------------------------------------------------
(* C7 *)

\* C7: every request whose X-Signature header is absent, empty or different
\* from the hex digest of its body is answered 401, and invalid_signature has
\* counted each of them once
C7_InvalidSignatureIs401 ==
    /\ \A q \in Requests : (Arrived(q) /\ ~SigValid(q)) => req[q].status = 401
    /\ webhook_requests_total.invalid_signature
         = Cardinality({q \in Requests : Arrived(q) /\ ~SigValid(q)})

-----------------------------------------------------------------------------
(* C8 *)

\* C8: a request with a missing or invalid signature is refused before its
\* body is decoded or validated: no JSON decoding, no validation, and the
\* answer is 401, never 422
C8_RefusedBeforeDecoding ==
    \A q \in Requests :
        (Arrived(q) /\ ~SigValid(q)) =>
            /\ ~InTrace(q, "json")
            /\ ~InTrace(q, "json_error")
            /\ ~InTrace(q, "validate_ok")
            /\ ~InTrace(q, "validate_error")
            /\ req[q].status = 401

-----------------------------------------------------------------------------
(* C9 *)

\* the requests sent whose body is a JSON document with the required members
\* and E.164 numbers
AcceptableInputs ==
    {inp \in Inputs :
        LET d == Decoded[inp].json
        IN  /\ d # None
            /\ d[1].message_id # None
            /\ d[1].ts # None
            /\ d[1].from # None
            /\ d[1].to # None
            /\ E164_PATTERN_match(d[1].from[1])
            /\ E164_PATTERN_match(d[1].to[1])}
DocAccepted(q) == Arrived(q) /\ TheInput(q) \in AcceptableInputs

\* a request that built a row or attempted an insert is validly signed and
\* valid, and passed the signature check, then validation, before the insert;
\* a request answered 401 or 422 built no row and attempted no insert
InsertGuarded ==
    \A q \in Requests :
        /\ (Handled(q) \/ InsertAttempted(q) \/ req[q].flushed) =>
              /\ SigValid(q)
              /\ DocAccepted(q)
              /\ Precedes(q, "verify_ok", "validate_ok")
              /\ Precedes(q, "validate_ok", "add")
              /\ InsertAttempted(q) =>
                    \/ Precedes(q, "add", "flush")
                    \/ Precedes(q, "add", "flush_IntegrityError")
                    \/ Precedes(q, "add", "flush_error")
        /\ req[q].status \in {401, 422} =>
              ~Handled(q) /\ ~InsertAttempted(q) /\ ~req[q].flushed

\* C9: an insert is attempted only by a request that is validly signed and
\* valid, after its signature check and its validation have passed; a request
\* answered 401 or 422 has built no row and attempted no insert, and the step
\* that answers it leaves the store as it was
C9_InsertOnlyAfterChecks ==
    /\ []InsertGuarded
    /\ [][\A q \in Requests :
             (req[q].status = 0 /\ req'[q].status \in {401, 422}) =>
                 store' = store]_vars

\* A request was answered 401 and another 422 while a third, which passed
\* both checks, has inserted its row
C9_Witness ==
    \E p, q, o \in Requests :
        /\ req[p].status = 401
        /\ req[q].status = 422 /\ InTrace(q, "validate_error")
        /\ InTrace(o, "flush")

-----------------------------------------------------------------------------
(* C10 *)

\* C10: a validly signed request whose message_id or ts is missing or empty
\* is answered 422 and attempts no insert, and no stored row has an empty
\* message_id or an empty ts
C10_EmptyIdOrTsRejected ==
    /\ \A q \in Requests :
          ( /\ Arrived(q) /\ SigValid(q) /\ TheDoc(q) # None
            /\ \/ TheDoc(q)[1].message_id \in {None, Some(<<>>)}
               \/ TheDoc(q)[1].ts \in {None, Some(<<>>)} ) =>
              req[q].status = 422 /\ ~Handled(q)
    /\ \A x \in store : x.message_id # <<>> /\ x.ts # <<>>


-----------------------------------------------------------------------------
(* C11 *)

\* '+', then a digit 1-9, then 1 to 14 digits 0-9, and nothing else
StrictE164(s) ==
    /\ Len(s) >= 3
    /\ Len(s) <= 16
    /\ s[1] = 43
    /\ s[2] >= 49 /\ s[2] <= 57
    /\ \A k \in 3..Len(s) : s[k] >= 48 /\ s[k] <= 57
\* the requests sent whose document has a from or a to not of that form
NotE164Inputs ==
    {inp \in Inputs :
        LET d == Decoded[inp].json
        IN  /\ d # None
            /\ \/ d[1].from # None /\ ~StrictE164(d[1].from[1])
               \/ d[1].to # None /\ ~StrictE164(d[1].to[1])}

\* C11: every stored row has a from_msisdn and a to_msisdn made of '+' and 2
\* to 15 digits 0-9, the first 1-9, and nothing else; and a validly signed
\* request whose from or to is not of that form is answered 422 and builds no
\* row
C11_StoredNumbersAreE164 ==
    /\ \A x \in store : StrictE164(x.from_msisdn) /\ StrictE164(x.to_msisdn)
    /\ \A q \in Requests :
          (SigValid(q) /\ TheInput(q) \in NotE164Inputs) =>
              req[q].status = 422 /\ ~Handled(q)


-----------------------------------------------------------------------------
(* C12 *)

\* a request whose insert or commit failed with no key violation is counted
\* neither created nor duplicate, its row is not committed, and it ends
\* rolled back with 500; the counters count the other requests only
FailureIsolated ==
    /\ \A q \in Requests :
          Faulted(q) =>
              /\ ~InTrace(q, "count_created")
              /\ ~InTrace(q, "count_duplicate")
              /\ ~InTrace(q, "flush_IntegrityError")
              /\ req[q].msg[1] \notin store
              /\ Done(q) =>
                    /\ req[q].status = 500
                    /\ InTrace(q, "rollback")
                    /\ ~req[q].flushed
    /\ webhook_requests_total.created =
          Cardinality({q \in Requests : InTrace(q, "count_created")})
    /\ webhook_requests_total.duplicate =
          Cardinality({q \in Requests : InTrace(q, "count_duplicate")})

\* C12: when the insert or the commit of a request fails for a reason other
\* than a key violation, the request is rolled back and answered 500, is
\* counted neither as created nor as duplicate, and none of its steps changes
\* the committed rows
C12_StorageFailureIs500 ==
    /\ []FailureIsolated
    /\ [][\A q \in Requests :
             (req'[q] # req[q] /\ req'[q].branch = "error") => store' = store]_vars

\* One request failed at the insert and one at the commit, both answered 500,
\* while a third was created and its row is the only one committed
C12_Witness ==
    \E p, q, o \in Requests :
        /\ Done(p) /\ InTrace(p, "flush_error") /\ req[p].status = 500
        /\ Done(q) /\ InTrace(q, "commit_error") /\ req[q].status = 500
        /\ Done(o) /\ req[o].branch = "created"
        /\ store = {req[o].msg[1]}
        /\ webhook_requests_total.created = 1
        /\ webhook_requests_total.duplicate = 0


-----------------------------------------------------------------------------
(* C13 *)

\* C13: a GET /messages answered after a POST /webhook was answered 200, with
\* the from parameter written as the sender of that POST, lists the message
\* of that message_id and sender in data and counts it in total
C13_PostedMessageIsListed ==
    \A q \in Requests :
        ( /\ reply.kind = "messages" /\ reply.status = 200
          /\ q \in reply.after
          /\ Handled(q) /\ req[q].status = 200
          /\ reply.query[1].from = Some(req[q].msg[1].from_msisdn) ) =>
            /\ \E k \in 1..Len(reply.data) :
                  /\ reply.data[k].message_id = MsgId(q)
                  /\ reply.data[k].from_msisdn = req[q].msg[1].from_msisdn
            /\ reply.total >= 1


-----------------------------------------------------------------------------
(* C14 *)

\* GET /messages was answered 200
Listed == reply.kind = "messages" /\ reply.status = 200
\* the stored rows the filters of the answered query select
Filtered ==
    Where(store, QueryParam(reply.query[1].from), QueryParam(reply.query[1].since),
          QueryParam(reply.query[1].q))
\* x comes before y: smaller ts in string order, then smaller message_id
SortsBefore(x, y) ==
    \/ StrLess(x.ts, y.ts)
    \/ x.ts = y.ts /\ StrLess(x.message_id, y.message_id)
\* the number of filtered rows that come before x
Rank(x) == Cardinality({y \in Filtered : SortsBefore(y, x)})

\* C14: the page answered for (limit, offset) holds exactly the elements
\* offset .. offset+limit-1 of the filtered rows sorted by ts, then by
\* message_id: its k-th row is the filtered row with offset+k-1 filtered rows
\* before it, and it stops at limit rows or at the last filtered row. The page
\* is thereby a function of the rows and the query, and the pages at offsets
\* 0, limit, 2*limit, ... hold every filtered row once, in that order.
C14_PageIsSliceOfSortedRows ==
    Listed =>
        LET limit == reply.query[1].limit
            offset == reply.query[1].offset
            n == Cardinality(Filtered)
        IN  /\ Len(reply.data) =
                  IF offset >= n THEN 0 ELSE Min(limit, n - offset)
            /\ \A k \in 1..Len(reply.data) :
                  /\ reply.data[k] \in Filtered
                  /\ Rank(reply.data[k]) = offset + k - 1

\* The second page of size 1 holds a row that shares its ts with the row of
\* the first page and follows it by message_id
C14_Witness ==
    /\ Listed
    /\ reply.query[1].limit = 1
    /\ reply.query[1].offset = 1
    /\ Len(reply.data) = 1
    /\ \E x \in Filtered :
          /\ x.ts = reply.data[1].ts
          /\ StrLess(x.message_id, reply.data[1].message_id)
          /\ Rank(x) = 0
    /\ \E y \in Filtered :
          StrLess(reply.data[1].ts, y.ts) /\ StrLess(y.message_id, reply.data[1].message_id)

-----------------------------------------------------------------------------
(* C15 *)

\* C15: total is the number of stored rows the filters select, whatever the
\* limit and the offset, an offset past the last row included
C15_TotalCountsFilteredRows ==
    Listed => reply.total = Cardinality(Filtered)

\* A page asked past the last of one sender's rows: empty, with the total of
\* that sender's rows, fewer than the stored rows
C15_Witness ==
    /\ Listed
    /\ reply.query[1].from # None
    /\ reply.query[1].offset >= reply.total
    /\ reply.data = <<>>
    /\ reply.total >= 2
    /\ reply.total < Cardinality(store)

-----------------------------------------------------------------------------
(* C16 *)

\* needle occurs in str, letter case aside
ContainsNoCase(str, needle) ==
    \E k \in 0..(Len(str) - Len(needle)) :
        SubSeq(Lower(str), k + 1, k + Len(needle)) = Lower(needle)
\* x satisfies every filter that was supplied, each value taken literally
Satisfies(x, from, since, q) ==
    /\ from # None => x.from_msisdn = from[1]
    /\ since # None => StrLeq(since[1], x.ts)
    /\ q # None => (x.text # None /\ ContainsNoCase(x.text[1], q[1]))

\* C16: the rows answered are exactly the stored rows that satisfy all the
\* supplied filters: from_msisdn equal to from, ts >= since, text containing q
\* as a literal substring whatever the letter case; total counts them
C16_FiltersSelectExactly ==
    (Listed /\ reply.query[1].limit = DefaultLimit /\ reply.query[1].offset = 0) =>
        LET want == {x \in store :
                        Satisfies(x, QueryParam(reply.query[1].from),
                                  QueryParam(reply.query[1].since),
                                  QueryParam(reply.query[1].q))}
        IN  /\ {reply.data[k] : k \in 1..Len(reply.data)} = want
            /\ reply.total = Cardinality(want)

-----------------------------------------------------------------------------
(* C17 *)

\* GET /stats was answered 200
Counted == reply.kind = "stats" /\ reply.status = 200

\* C17: total_messages is the number of rows, senders_count the number of
\* distinct from_msisdn, first_message_ts and last_message_ts the least and
\* the greatest ts in string order; of no row the counts are 0,
\* messages_per_sender is empty and both timestamps are null
C17_StatsOfStore ==
    Counted =>
        LET st == reply.stats[1]
        IN  /\ st.total_messages = Cardinality(store)
            /\ st.senders_count = Cardinality({x.from_msisdn : x \in store})
            /\ store = {} =>
                  /\ st.total_messages = 0
                  /\ st.senders_count = 0
                  /\ st.messages_per_sender = <<>>
                  /\ st.first_message_ts = None
                  /\ st.last_message_ts = None
            /\ store # {} =>
                  /\ st.first_message_ts # None
                  /\ st.last_message_ts # None
                  /\ \E x \in store : x.ts = st.first_message_ts[1]
                  /\ \E x \in store : x.ts = st.last_message_ts[1]
                  /\ \A x \in store :
                        /\ StrLeq(st.first_message_ts[1], x.ts)
                        /\ StrLeq(x.ts, st.last_message_ts[1])

\* Statistics of three rows of two senders, the first and the last ts apart
C17_Witness ==
    /\ Counted
    /\ reply.stats[1].total_messages = 3
    /\ reply.stats[1].senders_count = 2
    /\ reply.stats[1].first_message_ts = Some(Ts1)
    /\ reply.stats[1].last_message_ts = Some(Ts2)

-----------------------------------------------------------------------------
(* C18 *)

\* at most 10 senders, each with its count, in non-increasing order of count,
\* no sender left out with a higher count than a listed one
TopListSound ==
    Counted =>
        LET mps == reply.stats[1].messages_per_sender
        IN  /\ Len(mps) <= TopSenders
            /\ \A i \in 1..Len(mps) :
                  mps[i].count = Cardinality({x \in store :
                                     x.from_msisdn = mps[i].from_msisdn})
            /\ \A i, j \in 1..Len(mps) :
                  i < j => /\ mps[i].count >= mps[j].count
                           /\ mps[i].from_msisdn # mps[j].from_msisdn
            /\ \A x \in store :
                  (\A i \in 1..Len(mps) : mps[i].from_msisdn # x.from_msisdn) =>
                      \A i \in 1..Len(mps) :
                          mps[i].count >= Cardinality({y \in store :
                                              y.from_msisdn = x.from_msisdn})

\* C18: messages_per_sender lists at most 10 senders with their counts in
\* non-increasing order, no omitted sender having a higher count; and two
\* GET /stats answered on the same rows give the same list
C18_TopSendersDeterministic ==
    /\ []TopListSound
    /\ [][(Counted /\ Counted' /\ store' = store) =>
             reply'.stats[1].messages_per_sender
                 = reply.stats[1].messages_per_sender]_vars


-----------------------------------------------------------------------------
(* C19 *)

\* C19: GET /health/ready is answered 503 whenever the database cannot be
\* reached, before init_db and when it does not answer; GET /health/live is
\* answered 200 whatever the state of the database
C19_ReadinessFailsClosed ==
    /\ (reply.kind = "ready" /\ reply.db # "up") => reply.status = 503
    /\ reply.kind = "live" => reply.status = 200

-----------------------------------------------------------------------------
(* C20 *)

\* the last stage of the request's trace
LastStage(q) == req[q].trace[Len(req[q].trace)]

\* C20: a request that acquired a session and was answered has its session
\* closed and no transaction open, on every path; its row is committed only
\* if its handler returned from the created branch, and a request whose
\* handler or dependency raised was rolled back and committed nothing
C20_SessionScoped ==
    \A q \in Requests :
        /\ (Arrived(q) /\ ~Done(q)) => req[q].session = "open"
        /\ (Done(q) /\ InTrace(q, "get_db")) =>
              /\ req[q].session = "closed"
              /\ ~req[q].flushed
              /\ LastStage(q) = "close"
              /\ req[q].status \in {401, 500} =>
                    /\ InTrace(q, "rollback")
                    /\ ~InTrace(q, "exit_commit")
                    /\ Handled(q) => req[q].msg[1] \notin store
              /\ req[q].status = 200 =>
                    /\ InTrace(q, "exit_commit")
                    /\ (req[q].msg[1] \in store) <=> (req[q].branch = "created")

\* Three requests answered on three paths: created, duplicate and storage
\* failure, each with its session closed
C20_Witness ==
    \E p, q, o \in Requests :
        /\ Done(p) /\ req[p].branch = "created" /\ req[p].session = "closed"
        /\ Done(q) /\ req[q].branch = "duplicate" /\ req[q].session = "closed"
        /\ Done(o) /\ Faulted(o) /\ req[o].session = "closed"
                   /\ InTrace(o, "exit_rollback")


-----------------------------------------------------------------------------
(* C21 *)

WasCancelled(q) == Done(q) /\ req[q].branch = "cancelled"

\* the request was cancelled at an await at which its commit had not completed
CancelledBeforeCommitted(q) ==
    WasCancelled(q) /\ ~InTrace(q, "cancel_after_commit")

\* the row the request built is among the committed rows
Wrote(q) == Handled(q) /\ req[q].msg[1] \in store

\* C21: a POST /webhook cancelled at an await before its commit has
\* completed, the await of the commit included, leaves no row of its own in
\* the store
C21_CancelledLeavesNothing ==
    \A q \in Requests : CancelledBeforeCommitted(q) => ~Wrote(q)

\* The part that holds: cancelled before the commit was handed to the database
CancelledBeforeCommitIssued ==
    \A q \in Requests : InTrace(q, "cancel_before_commit") => ~Wrote(q)


-----------------------------------------------------------------------------
(* C22 *)

\* the branches that end in Rejected(Unauthenticated), Rejected(ValidationError),
\* Stored(Created), Stored(Duplicate) and Failed(StorageError)
TerminalBranches ==
    {"invalid_signature", "json_invalid", "validation_error", "created",
     "duplicate", "error"}

Terminated == {q \in Requests : Done(q) /\ req[q].branch \in TerminalBranches}

WebhookCounted ==
    webhook_requests_total.created + webhook_requests_total.duplicate
        + webhook_requests_total.invalid_signature

\* C22: every ingestion attempt that has reached one of the five terminal
\* states has incremented one webhook outcome counter, once: the counters sum
\* to the number of such attempts
C22_OneCountPerOutcome == WebhookCounted = Cardinality(Terminated)

\* The part that holds: what is counted is the created, duplicate and
\* unauthenticated attempts, each once
CountedOutcomes ==
    /\ webhook_requests_total.created =
          Cardinality({q \in Requests : Done(q) /\ req[q].branch = "created"})
    /\ webhook_requests_total.duplicate =
          Cardinality({q \in Requests : Done(q) /\ req[q].branch = "duplicate"})
    /\ webhook_requests_total.invalid_signature =
          Cardinality({q \in Requests :
                          Done(q) /\ req[q].branch = "invalid_signature"})

-----------------------------------------------------------------------------
(* C23 *)

RECURSIVE SumOver(_, _)
\* the sum of the counter f over the labels S
SumOver(f, S) ==
    IF S = {} THEN 0
    ELSE LET l == CHOOSE x \in S : TRUE IN f[l] + SumOver(f, S \ {l})

\* C23: the sum of http_requests_total over its labels is the number of
\* requests completed
C23_HttpRequestsCounted ==
    SumOver(http_requests_total, DOMAIN http_requests_total)
        = Cardinality({q \in Requests : Done(q)})


-----------------------------------------------------------------------------
(* C24 *)

Stored(id) == \E x \in store : x.message_id = id

\* C24: a POST /webhook answered 200, created or duplicate, has a committed
\* row with its message_id in the store when it is answered and ever after,
\* whatever the other requests do
C24_AnsweredOkIsStored ==
    \A q \in Requests :
        (Done(q) /\ req[q].status = 200 /\ Handled(q)) => Stored(MsgId(q))

\* Three requests for one message_id: one rolled back after a failure, one
\* created, one answered as a duplicate
C24_Witness ==
    \E p, q, o \in Requests :
        /\ Done(o) /\ Faulted(o) /\ InTrace(o, "flush")
        /\ Done(p) /\ req[p].branch = "created" /\ MsgId(p) = MsgId(o)
        /\ Done(q) /\ req[q].branch = "duplicate" /\ req[q].status = 200
        /\ MsgId(q) = MsgId(o)
        /\ Stored(MsgId(q))


-----------------------------------------------------------------------------
(* C25 *)

\* no request is in flight: each is idle, answered or cancelled
Quiescent == \A q \in Requests : req[q].pc \in {"idle", "done"}

\* C25: from the empty store and zeroed counters, when no request is in
\* flight, storage failures and cancellations included, 'created' equals the
\* number of committed rows and created + duplicate equals the number of 200
\* responses of POST /webhook
C25_CountersMatchStore ==
    Quiescent =>
        /\ webhook_requests_total.created = Cardinality(store)
        /\ webhook_requests_total.created + webhook_requests_total.duplicate
              = Cardinality({q \in Requests : Done(q) /\ req[q].status = 200})

\* The part that holds with cancellations: the 200 responses are the created
\* and the duplicate counts, and no more rows are counted than are stored
CountersBelowStore ==
    /\ webhook_requests_total.created <= Cardinality(store)
    /\ Quiescent =>
          webhook_requests_total.created + webhook_requests_total.duplicate
              = Cardinality({q \in Requests : Done(q) /\ req[q].status = 200})


-----------------------------------------------------------------------------
(* C26 *)

\* C26: in a GET /messages response, with POST /webhook requests committing
\* between its count query and its page query, data has at most total entries,
\* and exactly total entries when offset is 0 and total <= limit
C26_PageWithinTotal ==
    Listed =>
        /\ Len(reply.data) <= reply.total
        /\ (reply.query[1].offset = 0 /\ reply.total <= reply.query[1].limit)
               => Len(reply.data) = reply.total

-----------------------------------------------------------------------------
(* C27 *)

RECURSIVE SumCounts(_)
\* the sum of the counts of a messages_per_sender list
SumCounts(list) ==
    IF list = <<>> THEN 0 ELSE Head(list).count + SumCounts(Tail(list))

\* C27: in a GET /stats response, with POST /webhook requests committing
\* between its five queries, total_messages is 0 exactly when both timestamps
\* are null, senders_count <= total_messages, the listed counts sum to at most
\* total_messages, and first_message_ts <= last_message_ts
C27_StatsConsistent ==
    Counted =>
        LET st == reply.stats[1]
        IN  /\ (st.total_messages = 0) <=>
                  (st.first_message_ts = None /\ st.last_message_ts = None)
            /\ st.senders_count <= st.total_messages
            /\ SumCounts(st.messages_per_sender) <= st.total_messages
            /\ (st.first_message_ts # None /\ st.last_message_ts # None) =>
                  StrLeq(st.first_message_ts[1], st.last_message_ts[1])

\* The part that holds: the values read later are not behind those read
\* earlier, and the first timestamp is not after the last
StatsMonotone ==
    Counted =>
        LET st == reply.stats[1]
        IN  /\ st.total_messages <= Cardinality(store)
            /\ st.first_message_ts # None => st.last_message_ts # None
            /\ (st.first_message_ts # None /\ st.last_message_ts # None) =>
                  StrLeq(st.first_message_ts[1], st.last_message_ts[1])

=============================================================================
